---- MODULE Spec2Model ----
(***************************************************************************)
(* Telemetry stream and playback engine of sounds-of-the-stratosphere.     *)
(*                                                                         *)
(* useObservationStream (polling, cursor, merge, synthetic fallback),      *)
(* useObservationPlayback (index, reclamp, advance timer) and the parts of *)
(* App that connect them (window filter, setProgress(0) effect).           *)
(*                                                                         *)
(* Times are JavaScript numbers: instants in milliseconds, the cursor in   *)
(* seconds.  Strings are TLA+ strings; toISOString is modelled by the      *)
(* injective encoding IsoString.  One action is one macrotask: an event    *)
(* handler, a timer callback or a promise continuation together with the   *)
(* state updates, the render and the effects it causes.                    *)
(***************************************************************************)
EXTENDS Integers, Sequences, FiniteSets, TLC

\* ------------------------------------------------------------------ bounds

\* Longest raw list one response of the model's source carries.
MaxBatch == 2
\* Most fetches the model keeps in flight at once.
MaxInFlight == 2
\* Largest next_since hint (seconds) the model's source sends.
MaxHintSec == 3
\* Number of leading synthetic observations whose jitter the model varies.
MaxJittered == 3

\* ------------------------------------------------------- values and inputs

\* null / undefined of a string-valued field.
NULL == "<null>"

Max(a, b) == IF a >= b THEN a ELSE b
Min(a, b) == IF a <= b THEN a ELSE b

\* Date.prototype.toISOString, as an injective encoding of the instant.
IsoString(ms) == "iso:" \o ToString(ms)

\* A raw timestamp is a number (kind "num") or an ISO string (kind "iso",
\* v the instant the string denotes).
NumTs(n) == [kind |-> "num", v |-> n]
IsoTs(ms) == [kind |-> "iso", v |-> ms]

\* The records the model's source can deliver: id (NULL when the key is
\* absent, "" when it is the empty string), pk, timestamp.
RawPool ==
  { [id |-> "a", pk |-> NULL, timestamp |-> NumTs(1)],
    [id |-> NULL, pk |-> "a", timestamp |-> NumTs(3)],
    [id |-> "",  pk |-> NULL, timestamp |-> NumTs(2)],
    [id |-> "",  pk |-> NULL, timestamp |-> IsoTs(2500)] }

\* Props the hook is rendered with.
Sinces == {0, 2000}
Missions == {NULL, "m1"}
RefreshValues == {0, 15000}
Limits == {2}

\* Outcomes of Math.random() in randRange(-2, 2) * 60 * 1000.
JitterChoices == {-120000, 119999}

\* Ways a fetch fails after the request was sent.
FailKinds == {"http", "format"}

FALLBACK_MESSAGE == "WindBorne API unavailable"
MISSING_CREDENTIALS == "Missing WindBorne API credentials"
ErrorMessage(kind) ==
  IF kind = "http" THEN "WindBorne API error" ELSE "Unexpected WindBorne response format"

\* --------------------------------------------------------------- normalizer

\* Numbers beyond 32 bits: hi * 10^6 + lo with 0 <= lo < 10^6.
Wide(hi, lo) == [hi |-> hi, lo |-> lo]

\* w > 1e12
WideAboveMsThreshold(w) ==
  \/ w.hi > 1000000
  \/ (w.hi = 1000000 /\ w.lo > 0)

\* w * 1000
WideTimes1000(w) ==
  [ hi |-> w.hi * 1000 + (w.lo * 1000) \div 1000000,
    lo |-> (w.lo * 1000) % 1000000 ]

\* value > 1e12, computed without leaving 32-bit integers.
AboveMsThreshold(v) == WideAboveMsThreshold(Wide(v \div 1000000, v % 1000000))

\* The instant new Date(resolveTimestamp(value)).getTime() yields.
ResolvedMs(value) ==
  IF value.kind = "num"
    THEN (IF AboveMsThreshold(value.v) THEN value.v ELSE value.v * 1000)
    ELSE value.v

resolveTimestamp(value) == IsoString(ResolvedMs(value))

\* String(raw.timestamp)
TimestampAsString(value) ==
  IF value.kind = "num" THEN ToString(value.v) ELSE IsoString(value.v)

normalizeObservation(raw) ==
  [ id |-> IF raw.id # NULL THEN raw.id
           ELSE IF raw.pk # NULL THEN raw.pk
           ELSE TimestampAsString(raw.timestamp),
    missionId |-> "unknown",
    timestamp |-> resolveTimestamp(raw.timestamp),
    date |-> ResolvedMs(raw.timestamp) ]

\* A raw timestamp of any size: a number (kind "num"), a string that parses
\* as the finite number w (kind "str"), or a date string that does not parse
\* as a number (kind "text", w the instant in ms it denotes).
WideTs(kind, w) == [kind |-> kind, w |-> w]

\* The instant new Date(resolveTimestamp(value)).getTime() yields, for a
\* timestamp of any size: a number, and a string Number() finds finite, is
\* taken as milliseconds when it is > 1e12 and as seconds otherwise; any
\* other string is handed to new Date() as it is.
ResolvedInstant(value) ==
  IF value.kind \in {"num", "str"}
    THEN (IF WideAboveMsThreshold(value.w) THEN value.w ELSE WideTimes1000(value.w))
    ELSE value.w

\* coalesceNumber(values, fallback): the first candidate Number() finds
\* finite; a candidate is <<n>>, or <<>> when the key is absent.
RECURSIVE coalesceNumber(_, _)
coalesceNumber(values, fallback) ==
  IF values = <<>> THEN fallback
  ELSE IF Head(values) # <<>> THEN Head(values)[1]
  ELSE coalesceNumber(Tail(values), fallback)

\* Wind values are held in hundredths of a m/s, the precision the model
\* gives a number; every operation rounds its result to the nearest one.
RoundDiv(n, d) == (2 * n + d) \div (2 * d)

\* Math.hypot(x, y): the representable number nearest to sqrt(x^2 + y^2).
hypot(x, y) ==
  LET ax == IF x < 0 THEN -x ELSE x
      ay == IF y < 0 THEN -y ELSE y
      s == x * x + y * y
  IN CHOOSE h \in Max(ax, ay)..(ax + ay) :
       /\ 4 * s < (2 * h + 1) * (2 * h + 1)
       /\ (h = 0 \/ (2 * h - 1) * (2 * h - 1) <= 4 * s)

\* normalizeObservation(raw): the instant of date and the wind fields.
normalizeSample(raw) ==
  LET speed_u == coalesceNumber(<<raw.speed_u, raw.wind_u, raw.u_component>>, 0)
      speed_v == coalesceNumber(<<raw.speed_v, raw.wind_v, raw.v_component>>, 0)
  IN [ instant |-> ResolvedInstant(raw.timestamp),
       speed_u |-> speed_u,
       speed_v |-> speed_v,
       windSpeed |-> hypot(speed_u, speed_v) ]

RECURSIVE MapSeq(_, _)
MapSeq(Op(_), s) ==
  IF s = <<>> THEN <<>> ELSE <<Op(Head(s))>> \o MapSeq(Op, Tail(s))

\* -------------------------------------------------------------------- merge

\* obs.id || obs.timestamp
MergeKey(obs) == IF obs.id # "" THEN obs.id ELSE obs.timestamp

\* Map.prototype.set on a Map kept as its values in insertion order: an
\* existing key keeps its position and takes the new value.
MapSet(m, obs) ==
  IF \E i \in 1..Len(m) : MergeKey(m[i]) = MergeKey(obs)
    THEN [i \in 1..Len(m) |-> IF MergeKey(m[i]) = MergeKey(obs) THEN obs ELSE m[i]]
    ELSE Append(m, obs)

RECURSIVE MapSetAll(_, _)
MapSetAll(m, s) ==
  IF s = <<>> THEN m ELSE MapSetAll(MapSet(m, Head(s)), Tail(s))

\* Insert x behind every element that does not come after it.
RECURSIVE InsertByDate(_, _)
InsertByDate(s, x) ==
  IF s = <<>> THEN <<x>>
  ELSE IF s[Len(s)].date <= x.date THEN Append(s, x)
  ELSE Append(InsertByDate(SubSeq(s, 1, Len(s) - 1), x), s[Len(s)])

\* Array.prototype.sort((a, b) => a.date - b.date): a stable sort.
RECURSIVE SortByDate(_)
SortByDate(s) ==
  IF s = <<>> THEN <<>>
  ELSE InsertByDate(SortByDate(SubSeq(s, 1, Len(s) - 1)), s[Len(s)])

\* The merge without the Map: incoming records are appended, then sorted.
mergeAppending(current, incoming) ==
  SortByDate(current \o incoming)

\* The merge starting from an empty Map: the resident records are dropped.
mergeReplacing(current, incoming) ==
  SortByDate(MapSetAll(<<>>, incoming))

mergeChronologically(current, incoming) ==
  SortByDate(MapSetAll(MapSetAll(<<>>, current), incoming))

\* ------------------------------------------------------ synthetic generator

DURATION_MS == 24 * 60 * 60 * 1000

\* buildSyntheticObservations(startIso, count), jitter[i] being the value of
\* randRange(-2, 2) * 60 * 1000 drawn for index i - 1.
buildSyntheticObservations(startMs, count, jitter) ==
  LET step == DURATION_MS \div Max(count, 1)
  IN [ k \in 1..count |->
         LET timestampMs == startMs + (k - 1) * step + jitter[k]
         IN [ id |-> "windborne-sim-" \o ToString(timestampMs),
              missionId |-> "windborne-sim",
              timestamp |-> IsoString(timestampMs),
              date |-> timestampMs ] ]

\* The wind fields of one synthetic observation: unclamped is the value of
\* 8 + Math.cos(progress * Math.PI * 3) * 18 + randRange(-3, 3), dir the
\* values Math.cos(direction) and Math.sin(direction) returned.
syntheticWind(unclamped, dir) ==
  LET windSpeed == Min(Max(unclamped, 200), 6000)
  IN [ speed_u |-> RoundDiv(dir.cos * windSpeed, 100),
       speed_v |-> RoundDiv(dir.sin * windSpeed, 100),
       windSpeed |-> windSpeed ]

isoToSeconds(ms) == ms \div 1000

\* ---------------------------------------------------- useObservationStream

VARIABLES
  missionId,      \* prop: mission filter (NULL when not given)
  since,          \* prop: lookback origin, an instant in ms
  refreshMs,      \* prop: poll interval, 0 disables the interval
  isActive,       \* prop
  limit,          \* prop: batch size and synthetic series length
  authHeader,     \* authHeader.current is set (credentials present)
  effectsRun,     \* the first render's effects have run
  observations,   \* state: the resident Series
  status,         \* state: idle | loading | ready | error
  error,          \* state: message or NULL
  missionRef,
  sinceRef,       \* the instant the stored ISO string denotes
  cursorRef,      \* seconds
  hasDataRef,
  pollingRef,     \* an interval timer is registered
  inflight,       \* fetches awaiting their response, ordered by their since
  lastOp,         \* history: the operation that produced this state
  lastMax         \* history: <<latest instant>> of the last successful fetch's batch, or <<>>

streamVars ==
  << missionId, since, refreshMs, isActive, limit, authHeader, effectsRun,
     observations, status, error, missionRef, sinceRef, cursorRef,
     hasDataRef, pollingRef, inflight, lastOp, lastMax >>

\* Jitter draws for a synthetic series of the given length: the first
\* MaxJittered draws range over JitterChoices, the later ones are 0.
Jitters(count) ==
  { [k \in 1..count |-> IF k <= MaxJittered THEN f[k] ELSE 0] :
      f \in [1..Min(count, MaxJittered) -> JitterChoices] }

\* Catch with the test on hasDataRef inverted.
CatchInverted(message, cur, hd, obs, prefix) ==
  /\ cursorRef' = cur
  /\ IF hd
       THEN /\ \E jitter \in Jitters(limit) :
                 observations' = buildSyntheticObservations(sinceRef', limit, jitter)
            /\ hasDataRef' = TRUE
            /\ status' = "ready"
            /\ error' = FALLBACK_MESSAGE
            /\ lastOp' = prefix \o "fallback"
       ELSE /\ observations' = obs
            /\ hasDataRef' = hd
            /\ error' = message
            /\ status' = "error"
            /\ lastOp' = prefix \o "failure"
  /\ lastMax' = <<>>

\* Catch discarding the series and rewinding the cursor on a failure with data.
CatchDiscarding(message, cur, hd, obs, prefix) ==
  /\ IF ~hd
       THEN /\ \E jitter \in Jitters(limit) :
                 observations' = buildSyntheticObservations(sinceRef', limit, jitter)
            /\ cursorRef' = cur
            /\ hasDataRef' = TRUE
            /\ status' = "ready"
            /\ error' = FALLBACK_MESSAGE
            /\ lastOp' = prefix \o "fallback"
       ELSE /\ observations' = <<>>
            /\ cursorRef' = isoToSeconds(sinceRef')
            /\ hasDataRef' = hd
            /\ error' = message
            /\ status' = "error"
            /\ lastOp' = prefix \o "failure"
  /\ lastMax' = <<>>

\* catch block of pull, entered with the ref and state values cur/hd/obs.
\* prefix is "reset+" when the reset effect ran in the same task, else "".
\* The synthetic series is installed as built, without merge or sort.
Catch(message, cur, hd, obs, prefix) ==
  /\ cursorRef' = cur
  /\ IF ~hd
       THEN /\ \E jitter \in Jitters(limit) :
                 observations' = buildSyntheticObservations(sinceRef', limit, jitter)
            /\ hasDataRef' = TRUE
            /\ status' = "ready"
            /\ error' = FALLBACK_MESSAGE
            /\ lastOp' = prefix \o "fallback"
       ELSE /\ observations' = obs
            /\ hasDataRef' = hd
            /\ error' = message
            /\ status' = "error"
            /\ lastOp' = prefix \o "failure"
  /\ lastMax' = <<>>

\* A fetch joins those in flight.  Responses arrive in any order, so the
\* order of the requests is not kept: the list is ordered by since.
Enqueue(q, request) ==
  LET k == Cardinality({ i \in 1..Len(q) : q[i].since <= request.since })
  IN SubSeq(q, 1, k) \o <<request>> \o SubSeq(q, k + 1, Len(q))

\* pull() up to its first suspension, entered with the values st/cur/hd/obs/er
\* left by the code that ran before it in the same task.  fetchBatch throws
\* before any request when the credentials are missing; otherwise it reads the
\* cursor into the request and suspends on fetch().
Pull(st, cur, hd, obs, er, prefix) ==
  IF authHeader
    THEN /\ Len(inflight) < MaxInFlight
         /\ inflight' = Enqueue(inflight, [since |-> Max(0, cur)])
         /\ status' = (IF st = "ready" THEN st ELSE "loading")
         /\ cursorRef' = cur
         /\ hasDataRef' = hd
         /\ observations' = obs
         /\ error' = er
         /\ lastOp' = prefix \o "request"
         /\ lastMax' = <<>>
    ELSE /\ inflight' = inflight
         /\ Catch(MISSING_CREDENTIALS, cur, hd, obs, prefix)

\* applyCursorAdvance without the next_since branch.
applyCursorAdvanceIgnoringHint(cur, normalized, nextSince) ==
  IF Len(normalized) > 0
    THEN (normalized[Len(normalized)].date \div 1000) + 1
    ELSE cur

\* applyCursorAdvance(normalized, nextSince); nextSince is <<>> when the
\* response carries no next_since, <<n>> when it carries n.
applyCursorAdvance(cur, normalized, nextSince) ==
  IF Len(normalized) > 0
    THEN (normalized[Len(normalized)].date \div 1000) + 1
    ELSE IF nextSince # <<>> THEN nextSince[1] ELSE cur

\* ingest(incoming): the value of observations and hasDataRef afterwards.
ingestObservations(obs, incoming) ==
  IF incoming = <<>> THEN obs ELSE mergeChronologically(obs, incoming)

ingestHasData(hd, incoming) ==
  IF incoming = <<>> THEN hd ELSE TRUE

\* Sequences of n distinct elements of S.
DistinctSeqs(S, n) ==
  { q \in [1..n -> S] : \A i, j \in 1..n : i # j => q[i] # q[j] }

\* Raw lists the source may answer a request since=s with: at most
\* min(limit, 500) records, none older than s, in any order.
ResponseLists(s) ==
  LET eligible == { r \in RawPool : ResolvedMs(r.timestamp) >= s * 1000 }
  IN UNION { DistinctSeqs(eligible, n) : n \in 0..Min(MaxBatch, Min(limit, 500)) }

\* next_since hints the source may send with an empty list.
ResponseHints(s) == {<<>>} \cup { <<n>> : n \in s..MaxHintSec }

Remove(q, i) == SubSeq(q, 1, i - 1) \o SubSeq(q, i + 1, Len(q))

\* The polling effect's body (after its cleanup), entered with st/cur/hd/obs/er.
PollingEffectBody(st, cur, hd, obs, er, prefix) ==
  IF ~isActive'
    THEN /\ pollingRef' = FALSE
         /\ status' = st /\ cursorRef' = cur /\ hasDataRef' = hd
         /\ observations' = obs /\ error' = er
         /\ inflight' = inflight
         /\ lastOp' = prefix \o "render"
         /\ lastMax' = <<>>
    ELSE /\ Pull(st, cur, hd, obs, er, prefix)
         /\ pollingRef' = (refreshMs' # 0)

\* First render: the reset effect finds nothing changed, the polling effect
\* pulls once and registers the interval.
Mount ==
  /\ ~effectsRun
  /\ effectsRun' = TRUE
  /\ UNCHANGED << missionId, since, refreshMs, isActive, limit, authHeader,
                  missionRef, sinceRef >>
  /\ PollingEffectBody(status, cursorRef, hasDataRef, observations, error, "")

\* setInterval callback.
IntervalTick ==
  /\ effectsRun /\ pollingRef
  /\ UNCHANGED << missionId, since, refreshMs, isActive, limit, authHeader,
                  effectsRun, missionRef, sinceRef, pollingRef >>
  /\ Pull(status, cursorRef, hasDataRef, observations, error, "")

\* stream.refresh(), the "Sync latest" button.
Refresh ==
  /\ effectsRun
  /\ UNCHANGED << missionId, since, refreshMs, isActive, limit, authHeader,
                  effectsRun, missionRef, sinceRef, pollingRef >>
  /\ Pull(status, cursorRef, hasDataRef, observations, error, "")

\* <<the latest instant among the records>>, <<>> for an empty batch.
MaxInstant(batch) ==
  IF batch = <<>> THEN <<>>
  ELSE << CHOOSE d \in { batch[i].date : i \in 1..Len(batch) } :
            \A i \in 1..Len(batch) : batch[i].date <= d >>

\* A response arrives and parses: fetchBatch normalizes it and advances the
\* cursor, pull ingests the batch and sets the status.
\* The response to the i-th fetch in flight carries rawList and nextSince.
PullSucceedWith(i, rawList, nextSince) ==
  /\ \E normalized \in {MapSeq(normalizeObservation, rawList)} :
       /\ inflight' = Remove(inflight, i)
       /\ cursorRef' = applyCursorAdvance(cursorRef, normalized, nextSince)
       /\ observations' = ingestObservations(observations, normalized)
       /\ hasDataRef' = ingestHasData(hasDataRef, normalized)
       /\ lastMax' = MaxInstant(normalized)
  /\ status' = "ready"
  /\ error' = NULL
  /\ lastOp' = "success"
  /\ UNCHANGED << missionId, since, refreshMs, isActive, limit, authHeader,
                  effectsRun, missionRef, sinceRef, pollingRef >>

PullSucceed ==
  \E i \in 1..Len(inflight) :
    \E rawList \in ResponseLists(inflight[i].since) :
      \E nextSince \in (IF rawList = <<>> THEN ResponseHints(inflight[i].since) ELSE {<<>>}) :
        PullSucceedWith(i, rawList, nextSince)

\* A response fails (transport, non-2xx status or malformed body).
PullFail ==
  /\ UNCHANGED << missionId, since, refreshMs, isActive, limit, authHeader,
                  effectsRun, missionRef, sinceRef, pollingRef >>
  /\ \E i \in 1..Len(inflight) : inflight' = Remove(inflight, i)
  /\ \E kind \in FailKinds :
       Catch(ErrorMessage(kind), cursorRef, hasDataRef, observations, "")

\* The reset effect (deps missionId, since), run with the new props: the
\* values of status, cursorRef, hasDataRef and observations it leaves.
ResetNeeded == missionId' # missionRef \/ since' # sinceRef

\* resetState leaving the cursor where it is.
resetStateKeepingCursor(originMs) ==
  [observations |-> <<>>, hasDataRef |-> FALSE, cursorRef |-> cursorRef]

\* resetState(): setObservations([]), hasDataRef.current = false,
\* cursorRef.current = isoToSeconds(sinceRef.current).
resetState(originMs) ==
  [observations |-> <<>>, hasDataRef |-> FALSE, cursorRef |-> isoToSeconds(originMs)]

\* The caller changes the lookback origin.  Only the reset effect depends on
\* it: pull keeps its identity and the polling effect does not run again.
SetSince ==
  /\ effectsRun
  /\ \E s \in Sinces \ {since} : since' = s
  /\ UNCHANGED << missionId, refreshMs, isActive, limit, authHeader, effectsRun,
                  pollingRef, inflight >>
  /\ IF ResetNeeded
       THEN LET r == resetState(since')
            IN /\ missionRef' = missionId'
               /\ sinceRef' = since'
               /\ observations' = r.observations
               /\ hasDataRef' = r.hasDataRef
               /\ cursorRef' = r.cursorRef
               /\ status' = "loading"
               /\ error' = error
               /\ lastOp' = "reset"
       ELSE /\ UNCHANGED << missionRef, sinceRef, observations, hasDataRef,
                            cursorRef, status, error >>
            /\ lastOp' = "render"
  /\ lastMax' = <<>>

\* The caller changes the mission filter.  fetchBatch and pull get a new
\* identity, so after the reset effect the polling effect is cleaned up and
\* run again: it pulls at once and registers a new interval.
SetMission ==
  /\ effectsRun
  /\ \E m \in Missions \ {missionId} : missionId' = m
  /\ UNCHANGED << since, refreshMs, isActive, limit, authHeader, effectsRun >>
  /\ IF ResetNeeded
       THEN LET r == resetState(since')
            IN /\ missionRef' = missionId'
               /\ sinceRef' = since'
               /\ PollingEffectBody("loading", r.cursorRef, r.hasDataRef,
                                    r.observations, error, "reset+")
       ELSE /\ UNCHANGED << missionRef, sinceRef >>
            /\ PollingEffectBody(status, cursorRef, hasDataRef, observations, error, "")

\* The caller changes refreshMs: the polling effect is cleaned up
\* (the interval cleared) and run again.
SetPolling ==
  /\ effectsRun
  /\ \E r \in RefreshValues \ {refreshMs} : refreshMs' = r
  /\ UNCHANGED << missionId, since, isActive, limit, authHeader, effectsRun,
                  missionRef, sinceRef >>
  /\ PollingEffectBody(status, cursorRef, hasDataRef, observations, error, "")

\* --------------------------------------- App and useObservationPlayback

VARIABLES
  index,          \* playback state: read index into the slice
  isPlaying,      \* App state
  speed,          \* App state, in quarters (8 is 2x)
  windowStart,    \* App state, hours
  windowDuration, \* App state, hours
  timers,         \* pending setTimeout callbacks of the tick effect
  timerRef,       \* timerRef.current: a timer id, 0 for null
  tickCleanup,    \* the tick effect's last run returned clearTimer
  audioPending,   \* togglePlayback calls suspended on initializeAudio()
  before          \* history: slice length and index before the last operation

playbackVars ==
  << index, isPlaying, speed, windowStart, windowDuration, timers, timerRef,
     tickCleanup, audioPending, before >>

HOURS_IN_DAY == 24
DURATION_PRESETS == {1, 3, 6, 12, 24}
MIN_DELAY_MS == 400
MAX_DELAY_MS == 10000
HOUR_MS == 60 * 60 * 1000

\* Most togglePlayback calls the model keeps suspended at once.
MaxAudioPending == 1
\* Longest raw list one response of the in-order feed carries.
MaxFeedBatch == 3

\* Speeds the tempo slider is set to, in quarters: 1x and 2x.
Speeds == {4, 8}
\* Pointer positions on the timeline, in quarters of its width.
PointerQuarters == 0..4
\* Values the scrub control passes to setProgress, in hundredths.
ProgressPercents == {-50, 0, 33, 50, 100, 150}

\* The feed App plays: ten records over the 24 hours after sinceDate = 0.
FeedPool ==
  { [id |-> "f01", pk |-> NULL, timestamp |-> NumTs(0)],
    [id |-> "f02", pk |-> NULL, timestamp |-> NumTs(10)],
    [id |-> "f03", pk |-> NULL, timestamp |-> NumTs(30)],
    [id |-> "f04", pk |-> NULL, timestamp |-> NumTs(3600)],
    [id |-> "f05", pk |-> NULL, timestamp |-> IsoTs(3600500)],
    [id |-> "f06", pk |-> NULL, timestamp |-> NumTs(5 * 3600)],
    [id |-> "f07", pk |-> NULL, timestamp |-> NumTs(7 * 3600)],
    [id |-> "f08", pk |-> NULL, timestamp |-> NumTs(11 * 3600)],
    [id |-> "f09", pk |-> NULL, timestamp |-> NumTs(13 * 3600)],
    [id |-> "f10", pk |-> NULL, timestamp |-> NumTs(23 * 3600)] }

clamp(value, lo, hi) == Min(Max(value, lo), hi)

windowEnd(ws, wd) == Min(ws + wd, HOURS_IN_DAY)

\* filteredObservations: the slice handed to the playback hook.
filteredObservations(obs, ws, wd, sinceMs) ==
  SelectSeq(obs, LAMBDA o :
    /\ o.date - sinceMs >= ws * HOUR_MS
    /\ o.date - sinceMs <= windowEnd(ws, wd) * HOUR_MS)

\* What one render of App sees.
View == [ obs |-> observations, ws |-> windowStart, wd |-> windowDuration,
          index |-> index, playing |-> isPlaying, speed |-> speed ]

SliceOf(v) == filteredObservations(v.obs, v.ws, v.wd, since)
Slice == SliceOf(View)

\* The timer state the tick effect works on.
TimerState == [ timers |-> timers, ref |-> timerRef, cleanup |-> tickCleanup ]

\* clearTimer forgetting the reference without window.clearTimeout.
clearTimerLeaking(tm) == [tm EXCEPT !.ref = 0]

\* clearTimer()
clearTimer(tm) ==
  IF tm.ref # 0
    THEN [tm EXCEPT !.timers = { t \in tm.timers : t.id # tm.ref }, !.ref = 0]
    ELSE tm

\* window.setTimeout hands out an id no pending timer and no held reference has.
FreshTimerId(tm) ==
  CHOOSE n \in 1..(Cardinality(tm.timers) + 2) :
    /\ n # tm.ref
    /\ \A t \in tm.timers : t.id # n

\* Math.max(0.25, speed), in quarters.
safeSpeed(sp) == Max(1, sp)

\* The delay without the clamp.
scaledDelayUnclamped(delta, sp) == (delta * 4) \div safeSpeed(sp)

\* clamp(delta / safeSpeed, MIN_DELAY_MS, MAX_DELAY_MS), as the whole number
\* of milliseconds setTimeout waits.
scaledDelay(delta, sp) ==
  clamp((delta * 4) \div safeSpeed(sp), MIN_DELAY_MS, MAX_DELAY_MS)

\* The tick effect without the test on next: at the last index it schedules
\* an advance as well.
tickEffectLooping(v, tm) ==
  LET slice == SliceOf(v)
      cleaned == IF tm.cleanup THEN clearTimer(tm) ELSE tm
  IN IF ~v.playing \/ Len(slice) < 2 \/ v.index + 1 > Len(slice)
       THEN [clearTimer(cleaned) EXCEPT !.cleanup = FALSE]
       ELSE LET next == IF v.index + 2 > Len(slice) THEN 1 ELSE v.index + 2
                delta == slice[next].date - slice[v.index + 1].date
                id == FreshTimerId(cleaned)
            IN [ timers |-> cleaned.timers \cup
                              { [ id |-> id, last |-> Len(slice) - 1,
                                  delay |-> scaledDelay(delta, v.speed) ] },
                 ref |-> id,
                 cleanup |-> TRUE ]

\* The tick effect (deps index, isPlaying, observations, safeSpeed): the
\* cleanup of its previous run, then its body on the view v.
tickEffect(v, tm) ==
  LET slice == SliceOf(v)
      cleaned == IF tm.cleanup THEN clearTimer(tm) ELSE tm
  IN IF ~v.playing \/ Len(slice) < 2 \/ v.index + 2 > Len(slice)
       THEN [clearTimer(cleaned) EXCEPT !.cleanup = FALSE]
       ELSE LET delta == slice[v.index + 2].date - slice[v.index + 1].date
                id == FreshTimerId(cleaned)
            IN [ timers |-> cleaned.timers \cup
                              { [ id |-> id, last |-> Len(slice) - 1,
                                  delay |-> scaledDelay(delta, v.speed) ] },
                 ref |-> id,
                 cleanup |-> TRUE ]

\* The effects without App's setProgress(0) effect.
effectUpdatesWithoutRewind(prev, cur) ==
  LET len0 == Len(SliceOf(prev))
      len1 == Len(SliceOf(cur))
      lenChanged == len1 # len0
      reclamped == IF ~lenChanged THEN cur.index
                   ELSE IF len1 = 0 THEN 0
                   ELSE Min(cur.index, len1 - 1)
  IN [ cur EXCEPT
         !.ws = IF cur.wd # prev.wd
                  THEN Min(cur.ws, Max(0, HOURS_IN_DAY - cur.wd))
                  ELSE cur.ws,
         !.index = reclamped,
         !.playing = IF lenChanged /\ len1 = 0 THEN FALSE ELSE cur.playing ]

\* The state updates the effects of one render queue, applied: prev is the
\* view of the render before, cur the view being committed.
\*   App: setWindowStart(min(prev, max(0, 24 - windowDuration)))  [windowDuration]
\*   playback: reclamp of index                          [observations.length]
\*   App: setIsPlaying(false) on an empty slice   [filteredObservations.length]
\*   App: setProgress(0)              [windowStart, windowDuration, setProgress]
\* setProgress has deps [observations.length]: it is a new function, and the
\* last effect runs, whenever the length of the slice changed.
effectUpdates(prev, cur) ==
  LET len0 == Len(SliceOf(prev))
      len1 == Len(SliceOf(cur))
      lenChanged == len1 # len0
      windowChanged == cur.ws # prev.ws \/ cur.wd # prev.wd
      reclamped == IF ~lenChanged THEN cur.index
                   ELSE IF len1 = 0 THEN 0
                   ELSE Min(cur.index, len1 - 1)
  IN [ cur EXCEPT
         !.ws = IF cur.wd # prev.wd
                  THEN Min(cur.ws, Max(0, HOURS_IN_DAY - cur.wd))
                  ELSE cur.ws,
         !.index = IF (windowChanged \/ lenChanged) /\ len1 # 0 THEN 0 ELSE reclamped,
         !.playing = IF lenChanged /\ len1 = 0 THEN FALSE ELSE cur.playing ]

\* The tick effect's deps without index.
tickDepsChangedButIndex(prev, cur) ==
  \/ cur.playing # prev.playing
  \/ safeSpeed(cur.speed) # safeSpeed(prev.speed)
  \/ cur.obs # prev.obs
  \/ cur.ws # prev.ws
  \/ windowEnd(cur.ws, cur.wd) # windowEnd(prev.ws, prev.wd)

\* The tick effect runs again when one of its deps changed; the slice is a
\* new array whenever the memo's deps (series, windowStart, windowEnd) changed.
tickDepsChanged(prev, cur) ==
  \/ cur.index # prev.index
  \/ cur.playing # prev.playing
  \/ safeSpeed(cur.speed) # safeSpeed(prev.speed)
  \/ cur.obs # prev.obs
  \/ cur.ws # prev.ws
  \/ windowEnd(cur.ws, cur.wd) # windowEnd(prev.ws, prev.wd)

\* Commit the view cur after the view prev and run effects until no state
\* update is left: the final view and timer state.
RECURSIVE settle(_, _, _)
settle(prev, cur, tm) ==
  LET tm1 == IF tickDepsChanged(prev, cur) THEN tickEffect(cur, tm) ELSE tm
      next == effectUpdates(prev, cur)
  IN IF cur = prev THEN [view |-> cur, tm |-> tm]
     ELSE settle(cur, next, tm1)

\* An event handler left the view cur and the timer state tm: render,
\* effects, and the new state.  App passes refreshMs = isPlaying ? 15000 : 45000.
Commit(cur, tm) ==
  \E r \in {settle(View, cur, tm)} :
     /\ observations' = r.view.obs
     /\ refreshMs' = (IF r.view.playing THEN 15000 ELSE 45000)
     /\ windowStart' = r.view.ws
     /\ windowDuration' = r.view.wd
     /\ index' = r.view.index
     /\ isPlaying' = r.view.playing
     /\ speed' = r.view.speed
     /\ timers' = r.tm.timers
     /\ timerRef' = r.tm.ref
     /\ tickCleanup' = r.tm.cleanup
     /\ before' = [len |-> Len(Slice), index |-> index]

\* The stream hook's props, state and refs.
streamVarsButHistory ==
  << missionId, since, refreshMs, isActive, limit, authHeader, effectsRun,
     observations, status, error, missionRef, sinceRef, cursorRef,
     hasDataRef, pollingRef, inflight >>

\* Stream variables no playback handler touches.
streamRest ==
  << missionId, since, isActive, limit, authHeader, effectsRun, status, error,
     missionRef, sinceRef, cursorRef, hasDataRef, pollingRef, inflight >>

\* The s in S with the earliest timestamp (ties: any one).
Earliest(S) == CHOOSE r \in S : \A q \in S : ResolvedMs(r.timestamp) <= ResolvedMs(q.timestamp)

RECURSIVE InFeedOrder(_)
InFeedOrder(S) ==
  IF S = {} THEN <<>> ELSE <<Earliest(S)>> \o InFeedOrder(S \ {Earliest(S)})

\* Raw lists the in-order feed answers a request since=s with: the first k
\* records not older than s, oldest first.
FeedLists(s) ==
  LET eligible == InFeedOrder({ r \in FeedPool : ResolvedMs(r.timestamp) >= s * 1000 })
  IN { SubSeq(eligible, 1, k) : k \in 0..Min(Len(eligible), Min(MaxFeedBatch, Min(limit, 500))) }

\* One poll of App against the in-order feed, from pull() to the end of its
\* continuation, with no other event in between.
PollRoundTrip ==
  /\ effectsRun /\ authHeader /\ inflight = <<>>
  /\ \E rawList \in FeedLists(Max(0, cursorRef)) :
       \E normalized \in {MapSeq(normalizeObservation, rawList)} :
          /\ cursorRef' = applyCursorAdvance(cursorRef, normalized, <<>>)
          /\ hasDataRef' = ingestHasData(hasDataRef, normalized)
          /\ lastMax' = MaxInstant(normalized)
          /\ Commit([View EXCEPT !.obs = ingestObservations(observations, normalized)],
                    TimerState)
  /\ status' = "ready"
  /\ error' = NULL
  /\ lastOp' = "success"
  /\ UNCHANGED << missionId, since, isActive, limit, authHeader, effectsRun,
                  missionRef, sinceRef, pollingRef, inflight, audioPending >>

\* The advance timer t fires: setIndex(prev => min(prev + 1, length - 1)) with
\* the length of the slice the timer was created for.
TimerFire ==
  /\ \E t \in timers :
       Commit([View EXCEPT !.index = Min(index + 1, t.last)],
              [TimerState EXCEPT !.timers = timers \ {t}])
  /\ lastOp' = "tick"
  /\ lastMax' = <<>>
  /\ UNCHANGED streamRest
  /\ UNCHANGED audioPending

\* setProgress without the clamp of value into [0, 1].
setProgressUnclamped(pct, len) == (pct * (len - 1) + 50) \div 100

\* setProgress with Math.floor in place of Math.round.
setProgressFloor(pct, len) == (clamp(pct, 0, 100) * (len - 1)) \div 100

\* setProgress(value), value = pct / 100; Math.round rounds halves up.
setProgressIndex(pct, len) == (clamp(pct, 0, 100) * (len - 1) + 50) \div 100

\* setProgress(pct / 100) from the scrub control, then App's render and effects.
SetProgressTo(pct) ==
  /\ Len(Slice) # 0
  /\ Commit([View EXCEPT !.index = setProgressIndex(pct, Len(Slice))], TimerState)
  /\ lastOp' = "setProgress"
  /\ lastMax' = <<>>
  /\ UNCHANGED streamRest
  /\ UNCHANGED audioPending

SetProgress == \E pct \in ProgressPercents : SetProgressTo(pct)

StepBackward ==
  /\ Commit([View EXCEPT !.index = Max(0, index - 1)], TimerState)
  /\ lastOp' = "stepBackward"
  /\ lastMax' = <<>>
  /\ UNCHANGED streamRest
  /\ UNCHANGED audioPending

StepForward ==
  /\ Len(Slice) # 0
  /\ Commit([View EXCEPT !.index = Min(index + 1, Len(Slice) - 1)], TimerState)
  /\ lastOp' = "stepForward"
  /\ lastMax' = <<>>
  /\ UNCHANGED streamRest
  /\ UNCHANGED audioPending

\* The tempo slider.
SetSpeed ==
  /\ \E sp \in Speeds \ {speed} : Commit([View EXCEPT !.speed = sp], TimerState)
  /\ lastOp' = "speed"
  /\ lastMax' = <<>>
  /\ UNCHANGED streamRest
  /\ UNCHANGED audioPending

\* A duration chip.
SetWindowDuration ==
  /\ \E preset \in DURATION_PRESETS \ {windowDuration} :
       Commit([View EXCEPT !.wd = preset], TimerState)
  /\ lastOp' = "window"
  /\ lastMax' = <<>>
  /\ UNCHANGED streamRest
  /\ UNCHANGED audioPending

\* moveWindowToPosition(clientX), the pointer at q quarters of the timeline:
\* round(relative * 24 - windowDuration / 2) clamped into [0, maxWindowStart].
windowStartAt(q, wd) ==
  clamp((12 * q - wd + 1) \div 2, 0, Max(0, HOURS_IN_DAY - wd))

MoveWindow ==
  /\ Max(0, HOURS_IN_DAY - windowDuration) > 0
  /\ \E q \in PointerQuarters :
       /\ windowStartAt(q, windowDuration) # windowStart
       /\ Commit([View EXCEPT !.ws = windowStartAt(q, windowDuration)], TimerState)
  /\ lastOp' = "window"
  /\ lastMax' = <<>>
  /\ UNCHANGED streamRest
  /\ UNCHANGED audioPending

\* togglePlayback up to its suspension: nothing on an empty slice; while
\* playing it toggles at once, otherwise it awaits initializeAudio() first.
ToggleStart ==
  /\ Len(Slice) # 0
  /\ IF isPlaying
       THEN /\ Commit([View EXCEPT !.playing = ~isPlaying], TimerState)
            /\ UNCHANGED audioPending
       ELSE /\ audioPending < MaxAudioPending
            /\ audioPending' = audioPending + 1
            /\ UNCHANGED << observations, refreshMs >>
            /\ UNCHANGED << index, isPlaying, speed, windowStart, windowDuration,
                            timers, timerRef, tickCleanup >>
            /\ before' = [len |-> Len(Slice), index |-> index]
  /\ lastOp' = "toggle"
  /\ lastMax' = <<>>
  /\ UNCHANGED streamRest

\* initializeAudio() resolved: setIsPlaying(prev => !prev).
ToggleFinish ==
  /\ audioPending > 0
  /\ audioPending' = audioPending - 1
  /\ Commit([View EXCEPT !.playing = ~isPlaying], TimerState)
  /\ lastOp' = "toggle"
  /\ lastMax' = <<>>
  /\ UNCHANGED streamRest

\* ------------------------------------------------------------------ session

VARIABLES
  ingested,       \* history: the batches ingest() was called with, oldest first
  unmounted,      \* the component was unmounted (its cleanups have run)
  lastArg,        \* history: <<argument>> the last operation was called with, or <<>>
  sample,         \* a record on its way through the normalizer or the generator
  handsOff,       \* the user and the source have stopped acting on the App
  sonifier        \* useBalloonSonifier: its ref and state, the node sets built
                  \* and disposed, and the setup() calls suspended on Tone.start()

sessionVars == << ingested, unmounted, lastArg, sample, handsOff, sonifier >>

\* The sonifier after its first render: no nodes, nothing pending.  A node
\* set (synth, filter, reverb, gain, lfo) is named by a number from 1.
SonifierIdle ==
  [ nodesRef |-> 0, isReady |-> FALSE, built |-> {}, disposed |-> {},
    pending |-> <<>>, played |-> [nodes |-> 0, pitch |-> NULL] ]

SessionIdle ==
  /\ ingested = <<>>
  /\ unmounted = FALSE
  /\ lastArg = <<>>
  /\ sample = [stage |-> "none"]
  /\ handsOff = FALSE
  /\ sonifier = SonifierIdle

\* ------------------------------------------------------------ specifications

PlaybackIdle ==
  /\ index = 0
  /\ isPlaying = FALSE
  /\ speed = 8
  /\ windowStart = 0
  /\ windowDuration = HOURS_IN_DAY
  /\ timers = {}
  /\ timerRef = 0
  /\ tickCleanup = FALSE
  /\ audioPending = 0
  /\ before = [len |-> 0, index |-> 0]

StreamInit ==
  /\ missionId = NULL
  /\ since = 0
  /\ refreshMs \in RefreshValues
  /\ isActive = TRUE
  /\ limit \in Limits
  /\ authHeader \in BOOLEAN
  /\ effectsRun = FALSE
  /\ observations = <<>>
  /\ status = "idle"
  /\ error = NULL
  /\ missionRef = missionId
  /\ sinceRef = since
  /\ cursorRef = isoToSeconds(since)
  /\ hasDataRef = FALSE
  /\ pollingRef = FALSE
  /\ inflight = <<>>
  /\ lastOp = "init"
  /\ lastMax = <<>>

vars == << streamVars, playbackVars, sessionVars >>

\* useObservationStream on its own, rendered with changing props against a
\* source that answers in any order.
Init == StreamInit /\ PlaybackIdle /\ SessionIdle

Next ==
  \/ (Mount /\ UNCHANGED << playbackVars, sessionVars >>)
  \/ (IntervalTick /\ UNCHANGED << playbackVars, sessionVars >>)
  \/ (Refresh /\ UNCHANGED << playbackVars, sessionVars >>)
  \/ (PullSucceed /\ UNCHANGED << playbackVars, sessionVars >>)
  \/ (PullFail /\ UNCHANGED << playbackVars, sessionVars >>)
  \/ (SetSince /\ UNCHANGED << playbackVars, sessionVars >>)
  \/ (SetMission /\ UNCHANGED << playbackVars, sessionVars >>)
  \/ (SetPolling /\ UNCHANGED << playbackVars, sessionVars >>)

Spec == Init /\ [][Next]_vars

\* useObservationStream with the limit App passes (limit: 600) while the
\* source is unreachable or the credentials are missing: every pull fails.
APP_LIMIT == 600

InitOffline ==
  /\ missionId = NULL
  /\ since = 0
  /\ refreshMs \in RefreshValues
  /\ isActive = TRUE
  /\ limit = APP_LIMIT
  /\ authHeader \in BOOLEAN
  /\ effectsRun = FALSE
  /\ observations = <<>>
  /\ status = "idle"
  /\ error = NULL
  /\ missionRef = missionId
  /\ sinceRef = since
  /\ cursorRef = isoToSeconds(since)
  /\ hasDataRef = FALSE
  /\ pollingRef = FALSE
  /\ inflight = <<>>
  /\ lastOp = "init"
  /\ lastMax = <<>>
  /\ PlaybackIdle
  /\ SessionIdle

NextOffline ==
  \/ (Mount /\ UNCHANGED << playbackVars, sessionVars >>)
  \/ (IntervalTick /\ UNCHANGED << playbackVars, sessionVars >>)
  \/ (Refresh /\ UNCHANGED << playbackVars, sessionVars >>)
  \/ (PullFail /\ UNCHANGED << playbackVars, sessionVars >>)
  \/ (SetPolling /\ UNCHANGED << playbackVars, sessionVars >>)

SpecOffline == InitOffline /\ [][NextOffline]_vars

\* App with the playback hook over the in-order feed, after the first render.
InitPlayback ==
  /\ missionId = NULL
  /\ since = 0
  /\ refreshMs = 45000
  /\ isActive = TRUE
  /\ limit = APP_LIMIT
  /\ authHeader = TRUE
  /\ effectsRun = TRUE
  /\ observations = <<>>
  /\ status = "loading"
  /\ error = NULL
  /\ missionRef = missionId
  /\ sinceRef = since
  /\ cursorRef = isoToSeconds(since)
  /\ hasDataRef = FALSE
  /\ pollingRef = TRUE
  /\ inflight = <<>>
  /\ lastOp = "init"
  /\ lastMax = <<>>
  /\ PlaybackIdle
  /\ SessionIdle

NextPlayback ==
  \/ (PollRoundTrip /\ UNCHANGED sessionVars)
  \/ (TimerFire /\ UNCHANGED sessionVars)
  \/ (SetProgress /\ UNCHANGED sessionVars)
  \/ (StepBackward /\ UNCHANGED sessionVars)
  \/ (StepForward /\ UNCHANGED sessionVars)
  \/ (SetSpeed /\ UNCHANGED sessionVars)
  \/ (SetWindowDuration /\ UNCHANGED sessionVars)
  \/ (MoveWindow /\ UNCHANGED sessionVars)
  \/ (ToggleStart /\ UNCHANGED sessionVars)
  \/ (ToggleFinish /\ UNCHANGED sessionVars)

SpecPlayback == InitPlayback /\ [][NextPlayback]_vars

\* App from its mount to its unmount and after: polls started by the interval
\* and completed later (the source answers within one interval, so the
\* interval finds no fetch in flight), the advance timer and the play button.

\* The response to a fetch of the mounted App arrives from the in-order feed:
\* pull's continuation, then App's render and effects.
PollComplete ==
  /\ ~unmounted
  /\ \E i \in 1..Len(inflight) :
       \E rawList \in FeedLists(inflight[i].since) :
         \E normalized \in {MapSeq(normalizeObservation, rawList)} :
            /\ inflight' = Remove(inflight, i)
            /\ cursorRef' = applyCursorAdvance(cursorRef, normalized, <<>>)
            /\ hasDataRef' = ingestHasData(hasDataRef, normalized)
            /\ lastMax' = MaxInstant(normalized)
            /\ Commit([View EXCEPT !.obs = ingestObservations(observations, normalized)],
                      TimerState)
  /\ status' = "ready"
  /\ error' = NULL
  /\ lastOp' = "success"
  /\ UNCHANGED << missionId, since, isActive, limit, authHeader, effectsRun,
                  missionRef, sinceRef, pollingRef, audioPending >>

\* The response arrives after the unmount: fetchBatch still advances the
\* cursor and ingest sets hasDataRef, React ignores the state updates.
PollCompleteUnmounted ==
  /\ unmounted
  /\ \E i \in 1..Len(inflight) :
       \E rawList \in FeedLists(inflight[i].since) :
         \E normalized \in {MapSeq(normalizeObservation, rawList)} :
            /\ inflight' = Remove(inflight, i)
            /\ cursorRef' = applyCursorAdvance(cursorRef, normalized, <<>>)
            /\ hasDataRef' = ingestHasData(hasDataRef, normalized)
            /\ lastMax' = MaxInstant(normalized)
  /\ lastOp' = "success-ignored"
  /\ UNCHANGED << missionId, since, refreshMs, isActive, limit, authHeader,
                  effectsRun, observations, status, error, missionRef, sinceRef,
                  pollingRef >>
  /\ UNCHANGED playbackVars

\* Unmount without clearInterval and clearTimeout.
UnmountLeaking ==
  /\ ~unmounted
  /\ unmounted' = TRUE
  /\ lastOp' = "unmount"
  /\ lastMax' = <<>>
  /\ UNCHANGED << pollingRef, timers, timerRef, tickCleanup >>
  /\ UNCHANGED << missionId, since, refreshMs, isActive, limit, authHeader,
                  effectsRun, observations, status, error, missionRef, sinceRef,
                  cursorRef, hasDataRef, inflight >>
  /\ UNCHANGED << index, isPlaying, speed, windowStart, windowDuration,
                  audioPending, before, ingested, lastArg, sample,
                  handsOff, sonifier >>

\* The component unmounts: React runs every effect's cleanup.  The polling
\* effect's cleanup and the stream's unmount effect clear the interval; the
\* tick effect's cleanup (when its last run returned one) and the playback
\* hook's unmount effect call clearTimer.
Unmount ==
  /\ ~unmounted
  /\ unmounted' = TRUE
  /\ pollingRef' = FALSE
  /\ \E tm \in {clearTimer(IF tickCleanup THEN clearTimer(TimerState) ELSE TimerState)} :
       /\ timers' = tm.timers
       /\ timerRef' = tm.ref
  /\ tickCleanup' = FALSE
  /\ lastOp' = "unmount"
  /\ lastMax' = <<>>
  /\ UNCHANGED << missionId, since, refreshMs, isActive, limit, authHeader,
                  effectsRun, observations, status, error, missionRef, sinceRef,
                  cursorRef, hasDataRef, inflight >>
  /\ UNCHANGED << index, isPlaying, speed, windowStart, windowDuration,
                  audioPending, before, ingested, lastArg, sample,
                  handsOff, sonifier >>

\* initializeAudio() resolves after the unmount: React ignores
\* setIsPlaying on the unmounted component.
ToggleFinishUnmounted ==
  /\ unmounted
  /\ audioPending > 0
  /\ audioPending' = audioPending - 1
  /\ lastOp' = "toggle-ignored"
  /\ lastMax' = <<>>
  /\ UNCHANGED streamVarsButHistory
  /\ UNCHANGED << index, isPlaying, speed, windowStart, windowDuration, timers,
                  timerRef, tickCleanup, before >>
  /\ UNCHANGED sessionVars

NextTeardown ==
  \/ (inflight = <<>> /\ IntervalTick /\ UNCHANGED << playbackVars, sessionVars >>)
  \/ (PollComplete /\ UNCHANGED sessionVars)
  \/ (PollCompleteUnmounted /\ UNCHANGED sessionVars)
  \/ (TimerFire /\ UNCHANGED sessionVars)
  \/ (~unmounted /\ ToggleStart /\ UNCHANGED sessionVars)
  \/ (~unmounted /\ ToggleFinish /\ UNCHANGED sessionVars)
  \/ ToggleFinishUnmounted
  \/ Unmount

SpecTeardown == InitPlayback /\ [][NextTeardown]_vars

\* ingest() on its own: the Series of a mounted hook (empty, the synthetic
\* fallback, or the result of one earlier ingest) takes batches the
\* normalizer produced, in any order and with repetitions.

\* Longest batch handed to ingest.
MaxMergeBatch == 2
\* Most calls of ingest in one run.
MaxIngests == 2

\* Raw records behind the batches: one id delivered twice with different
\* timestamps (as id and as pk), a record without id or pk (its id is its
\* timestamp) and a record with an empty id at the same timestamp.
MergePool ==
  { [id |-> "a", pk |-> NULL, timestamp |-> NumTs(1)],
    [id |-> NULL, pk |-> "a", timestamp |-> NumTs(3)],
    [id |-> NULL, pk |-> NULL, timestamp |-> IsoTs(2500)],
    [id |-> "",  pk |-> NULL, timestamp |-> IsoTs(2500)] }

\* fetchBatch's rawList.map(normalizeObservation) over the pool.
MergeBatches ==
  { MapSeq(normalizeObservation, rawList) :
      rawList \in UNION { DistinctSeqs(MergePool, n) : n \in 0..MaxMergeBatch } }

\* The Series before the calls: empty, synthetic, or one batch ingested.
MergeSeries ==
  { ingestObservations(<<>>, b) : b \in MergeBatches }
    \cup { buildSyntheticObservations(0, 2, j) : j \in Jitters(2) }

InitMerge ==
  /\ missionId = NULL
  /\ since = 0
  /\ refreshMs = 0
  /\ isActive = TRUE
  /\ limit = 2
  /\ authHeader = TRUE
  /\ effectsRun = TRUE
  /\ observations \in MergeSeries
  /\ status = (IF observations = <<>> THEN "loading" ELSE "ready")
  /\ error = (IF \E i \in 1..Len(observations) : observations[i].missionId = "windborne-sim"
                THEN FALLBACK_MESSAGE ELSE NULL)
  /\ missionRef = missionId
  /\ sinceRef = since
  /\ cursorRef = isoToSeconds(since)
  /\ hasDataRef = (observations # <<>>)
  /\ pollingRef = FALSE
  /\ inflight = <<>>
  /\ lastOp = "init"
  /\ lastMax = <<>>
  /\ PlaybackIdle
  /\ SessionIdle

\* ingest(incoming)
Ingest ==
  /\ Len(ingested) < MaxIngests
  /\ \E incoming \in MergeBatches :
       /\ observations' = ingestObservations(observations, incoming)
       /\ hasDataRef' = ingestHasData(hasDataRef, incoming)
       /\ ingested' = Append(ingested, incoming)
  /\ lastOp' = "ingest"
  /\ UNCHANGED << missionId, since, refreshMs, isActive, limit, authHeader,
                  effectsRun, status, error, missionRef, sinceRef, cursorRef,
                  pollingRef, inflight, lastMax, unmounted, lastArg, sample,
                  handsOff, sonifier >>
  /\ UNCHANGED playbackVars

NextMerge == Ingest

SpecMerge == InitMerge /\ [][NextMerge]_vars

\* The normalizer and the generator on their own: one raw record, or one
\* set of draws of the generator, is turned into an observation.

\* Raw timestamps: 1 s, the values around 1e12, a current instant in ms; as
\* numbers and as numeric strings; and one ISO date string.
SampleTimestamps ==
  { WideTs(k, w) : k \in {"num", "str"},
                   w \in { Wide(0, 1), Wide(999999, 999999), Wide(1000000, 0),
                           Wide(1000000, 1), Wide(1730000, 0) } }
    \cup { WideTs("text", Wide(1730000, 500)) }

\* Candidates for speed_u: <<speed_u, wind_u, u_component>>.
SampleU ==
  { << <<300>>, <<>>, <<>> >>, << <<>>, <<-400>>, <<>> >>,
    << <<>>, <<>>, <<>> >>, << <<500>>, <<999>>, <<>> >> }

\* Candidates for speed_v: <<speed_v, wind_v, v_component>>.
SampleV ==
  { << <<400>>, <<>>, <<>> >>, << <<>>, <<>>, <<1200>> >>, << <<>>, <<>>, <<>> >> }

\* An aggregate wind speed the upstream record may carry.
SampleUpstreamSpeeds == { <<>>, <<777>> }

RawSamples ==
  { [ timestamp |-> ts,
      speed_u |-> u[1], wind_u |-> u[2], u_component |-> u[3],
      speed_v |-> v[1], wind_v |-> v[2], v_component |-> v[3],
      wind_speed |-> ws ] :
      ts \in SampleTimestamps, u \in SampleU, v \in SampleV,
      ws \in SampleUpstreamSpeeds }

\* Values of 8 + cos(progress * 3 pi) * 18 + randRange(-3, 3): from -13 to 29.
WindDraws == { -1300, 200, 550, 1000, 2900 }

\* Math.cos and Math.sin of the directions 0, 0.3, -0.3, atan(4/3), pi/2,
\* 2.5 and pi.
Directions ==
  { [cos |-> 100, sin |-> 0], [cos |-> 96, sin |-> 30], [cos |-> 96, sin |-> -30],
    [cos |-> 60, sin |-> 80], [cos |-> 0, sin |-> 100], [cos |-> -80, sin |-> 60],
    [cos |-> -100, sin |-> 0] }

InitDerive ==
  /\ StreamInit
  /\ refreshMs = 0
  /\ authHeader
  /\ PlaybackIdle
  /\ ingested = <<>>
  /\ unmounted = FALSE
  /\ lastArg = <<>>
  /\ handsOff = FALSE
  /\ sonifier = SonifierIdle
  /\ sample \in { [stage |-> "raw", raw |-> r] : r \in RawSamples }
                 \cup { [stage |-> "draw", unclamped |-> w, dir |-> d] :
                          w \in WindDraws, d \in Directions }

\* rawList.map(normalizeObservation), one record of it.
NormalizeSample ==
  /\ sample.stage = "raw"
  /\ sample' = [stage |-> "normalized", raw |-> sample.raw,
                obs |-> normalizeSample(sample.raw)]
  /\ UNCHANGED << streamVars, playbackVars, ingested, unmounted, lastArg, handsOff,
                  sonifier >>

\* buildSyntheticObservations, one element of it.
GenerateSample ==
  /\ sample.stage = "draw"
  /\ sample' = [stage |-> "synthetic", unclamped |-> sample.unclamped,
                dir |-> sample.dir,
                obs |-> syntheticWind(sample.unclamped, sample.dir)]
  /\ UNCHANGED << streamVars, playbackVars, ingested, unmounted, lastArg, handsOff,
                  sonifier >>

NextDerive == NormalizeSample \/ GenerateSample

SpecDerive == InitDerive /\ [][NextDerive]_vars

\* Session variables but the argument history.
sessionButArg == << ingested, unmounted, sample, handsOff, sonifier >>

\* App paused, with the scrub control, the step buttons, the tempo slider and
\* the window controls over the in-order feed; the value handed to
\* setProgress is kept in lastArg.
NextScrub ==
  \/ (PollRoundTrip /\ lastArg' = <<>> /\ UNCHANGED sessionButArg)
  \/ (\E pct \in ProgressPercents :
        SetProgressTo(pct) /\ lastArg' = <<pct>> /\ UNCHANGED sessionButArg)
  \/ (StepBackward /\ lastArg' = <<>> /\ UNCHANGED sessionButArg)
  \/ (StepForward /\ lastArg' = <<>> /\ UNCHANGED sessionButArg)
  \/ (SetSpeed /\ lastArg' = <<>> /\ UNCHANGED sessionButArg)
  \/ (SetWindowDuration /\ lastArg' = <<>> /\ UNCHANGED sessionButArg)
  \/ (MoveWindow /\ lastArg' = <<>> /\ UNCHANGED sessionButArg)

SpecScrub == InitPlayback /\ [][NextScrub]_vars

\* useObservationStream under polls, refreshes and changes of the lookback
\* origin; the next_since hint of the last response is kept in lastArg.
NextHinted ==
  \/ (Mount /\ lastArg' = <<>> /\ UNCHANGED << playbackVars, sessionButArg >>)
  \/ (IntervalTick /\ lastArg' = <<>> /\ UNCHANGED << playbackVars, sessionButArg >>)
  \/ (Refresh /\ lastArg' = <<>> /\ UNCHANGED << playbackVars, sessionButArg >>)
  \/ (\E i \in 1..Len(inflight) :
        \E rawList \in ResponseLists(inflight[i].since) :
          \E nextSince \in (IF rawList = <<>> THEN ResponseHints(inflight[i].since)
                                             ELSE {<<>>}) :
            /\ PullSucceedWith(i, rawList, nextSince)
            /\ lastArg' = nextSince
            /\ UNCHANGED << playbackVars, sessionButArg >>)
  \/ (PullFail /\ lastArg' = <<>> /\ UNCHANGED << playbackVars, sessionButArg >>)
  \/ (SetSince /\ lastArg' = <<>> /\ UNCHANGED << playbackVars, sessionButArg >>)

SpecHinted == Init /\ [][NextHinted]_vars

\* App left to play: the user scrubs, sets the tempo and the window and
\* presses play while polls come in, then nothing acts on the App any more
\* but its own advance timer.  A pending setTimeout that is not cleared fires.
HandsOff ==
  /\ ~handsOff
  /\ audioPending = 0
  /\ handsOff' = TRUE
  /\ UNCHANGED << streamVars, playbackVars, ingested, unmounted, lastArg, sample,
                  sonifier >>

NextAutoplay ==
  \/ (~handsOff /\ PollRoundTrip /\ UNCHANGED sessionVars)
  \/ (~handsOff /\ SetProgress /\ UNCHANGED sessionVars)
  \/ (~handsOff /\ SetSpeed /\ UNCHANGED sessionVars)
  \/ (~handsOff /\ SetWindowDuration /\ UNCHANGED sessionVars)
  \/ (~handsOff /\ MoveWindow /\ UNCHANGED sessionVars)
  \/ (~handsOff /\ ToggleStart /\ UNCHANGED sessionVars)
  \/ (~handsOff /\ ToggleFinish /\ UNCHANGED sessionVars)
  \/ HandsOff
  \/ (TimerFire /\ UNCHANGED sessionVars)

SpecAutoplay ==
  /\ InitPlayback
  /\ [][NextAutoplay]_vars
  /\ WF_vars(TimerFire /\ UNCHANGED sessionVars)

\* useObservationStream with its scheduling: a registered interval fires, and
\* every fetch in flight is answered or fails.  Nothing obliges the caller to
\* change a prop or to call refresh().
SpecLive ==
  /\ Init
  /\ [][Next]_vars
  /\ WF_vars(IntervalTick /\ UNCHANGED << playbackVars, sessionVars >>)
  /\ WF_vars((PullSucceed \/ PullFail) /\ UNCHANGED << playbackVars, sessionVars >>)

\* useBalloonSonifier on its own: initializeAudio and triggerObservation are
\* called in any interleaving, Tone.start() resolves in the order of the
\* calls, and the component is unmounted at any moment.

\* Most setup() calls the model keeps suspended on Tone.start() at once.
MaxSetupPending == 2
\* Most node sets built in one run.
MaxNodeSets == 3

ALTITUDE_RANGE == [min |-> 0, max |-> 33000]
SCALE == << "C3", "D3", "E3", "G3", "A3", "C4", "D4", "E4", "G4", "A4", "C5" >>

\* Altitudes of the observations handed to triggerObservation, in meters.
SonifiedAltitudes == {500, 15000, 33000}

\* altitudeToPitch(altitude): SCALE[min(length - 1, max(0, floor(ratio * length)))]
\* with ratio = (clamped - min) / (max - min).
altitudeToPitch(altitude) ==
  LET clamped == clamp(altitude, ALTITUDE_RANGE.min, ALTITUDE_RANGE.max)
      scaled == ((clamped - ALTITUDE_RANGE.min) * Len(SCALE))
                  \div (ALTITUDE_RANGE.max - ALTITUDE_RANGE.min)
  IN SCALE[Min(Len(SCALE) - 1, Max(0, scaled)) + 1]

\* A call of setup(): by initializeAudio, or by triggerObservation for an
\* observation at the given altitude.
InitCall == [caller |-> "init", altitude |-> 0]
TriggerCall(altitude) == [caller |-> "trigger", altitude |-> altitude]

\* What the caller does with the nodes setup() returned: triggerObservation
\* plays the observation's pitch on them, initializeAudio nothing.
PlayedBy(call, nodes, played) ==
  IF call.caller = "trigger"
    THEN [nodes |-> nodes, pitch |-> altitudeToPitch(call.altitude)]
    ELSE played

\* setup() after await Tone.start(): a new node set is built and connected,
\* nodesRef.current is assigned, setIsReady(true) (ignored after the
\* unmount); a suspended triggerObservation then plays on the set setup()
\* returned to it.
SetupResume(s) ==
  LET fresh == Cardinality(s.built) + 1
  IN [s EXCEPT !.pending = Tail(s.pending),
               !.built = s.built \cup {fresh},
               !.nodesRef = fresh,
               !.isReady = IF unmounted THEN s.isReady ELSE TRUE,
               !.played = PlayedBy(Head(s.pending), fresh, s.played)]

\* setup() up to its await, called by initializeAudio or by
\* triggerObservation: with nodesRef.current set it returns the nodes, and
\* triggerObservation plays on them; otherwise the call is suspended on
\* Tone.start().
SetupCall(s, call) ==
  IF s.nodesRef # 0
    THEN [s EXCEPT !.played = PlayedBy(call, s.nodesRef, s.played)]
    ELSE [s EXCEPT !.pending = Append(s.pending, call)]

SonifierRest == << streamVars, playbackVars, ingested, lastArg, sample, handsOff >>

\* initializeAudio(), from togglePlayback.
InitializeAudio ==
  /\ ~unmounted
  /\ sonifier.nodesRef = 0 => Len(sonifier.pending) < MaxSetupPending
  /\ sonifier' = SetupCall(sonifier, InitCall)
  /\ UNCHANGED unmounted
  /\ UNCHANGED SonifierRest

\* triggerObservation(observation), from App's sonify effect.
TriggerObservation ==
  /\ ~unmounted
  /\ sonifier.nodesRef = 0 => Len(sonifier.pending) < MaxSetupPending
  /\ \E altitude \in SonifiedAltitudes :
       sonifier' = SetupCall(sonifier, TriggerCall(altitude))
  /\ UNCHANGED unmounted
  /\ UNCHANGED SonifierRest

\* Tone.start() resolves for the oldest suspended call.
ToneStarted ==
  /\ sonifier.pending # <<>>
  /\ Cardinality(sonifier.built) < MaxNodeSets
  /\ sonifier' = SetupResume(sonifier)
  /\ UNCHANGED unmounted
  /\ UNCHANGED SonifierRest

\* The unmount: the dispose effect's cleanup disposes the nodes of
\* nodesRef.current, when there are any, and leaves the ref as it is.
SonifierUnmount ==
  /\ ~unmounted
  /\ unmounted' = TRUE
  /\ sonifier' = [sonifier EXCEPT
                    !.disposed = IF sonifier.nodesRef # 0
                                   THEN sonifier.disposed \cup {sonifier.nodesRef}
                                   ELSE sonifier.disposed]
  /\ UNCHANGED SonifierRest

NextSonifier ==
  \/ InitializeAudio
  \/ TriggerObservation
  \/ ToneStarted
  \/ SonifierUnmount

SpecSonifier == InitPlayback /\ [][NextSonifier]_vars

\* -------------------------------------------------------------- properties

IsSorted(obs) == \A i \in 1..(Len(obs) - 1) : obs[i].date <= obs[i + 1].date

\* The step is the end of a poll that failed (pull's catch block ran).
FailedOps == {"failure", "fallback"}

\* C1: in every reachable state the resident Series is ordered non-decreasing
\* by instant, the state right after the synthetic fallback series is
\* installed included.
C1_SeriesSorted == IsSorted(observations)

\* C2: after a poll fails while the Series holds data, status is ready with an
\* error message attached; status = error is reachable only while the Series
\* is empty.
C2_ErrorOnlyWhileEmpty ==
  /\ (lastOp \in FailedOps /\ observations # <<>>) => (status = "ready" /\ error # NULL)
  /\ status = "error" => observations = <<>>

\* C3: at most one fetch is in flight at any time.
C3_AtMostOneInFlight == Len(inflight) <= 1

\* C4: between resets no successful fetch leaves the cursor lower than it was
\* before that fetch completed.
C4_CursorMonotone == [][lastOp' = "success" => cursorRef' >= cursorRef]_vars

\* C5: after a successful fetch that returned at least one record, the cursor
\* equals floor(max instant of the returned records / 1000) + 1, whatever the
\* order of the records.
C5_CursorPastMax ==
  (lastOp = "success" /\ lastMax # <<>>) => cursorRef = (lastMax[1] \div 1000) + 1

C7_FailureKeepsData ==
  [][(lastOp' \in FailedOps /\ observations # <<>>)
       => (observations' = observations /\ cursorRef' = cursorRef)]_vars

C7_Witness ==
  /\ lastOp = "failure"
  /\ observations # <<>>
  /\ error \in { ErrorMessage(k) : k \in FailKinds }

\* C8: whenever the playback slice is non-empty, 0 <= index < length(slice),
\* and currentObservation (slice[index]) is then defined.
C8_IndexInSlice == Len(Slice) # 0 => (0 <= index /\ index < Len(Slice))

\* The window change that shrinks the slice from length 10 at index 7 to length 4.
C8_Witness ==
  /\ lastOp = "window"
  /\ before = [len |-> 10, index |-> 7]
  /\ Len(Slice) = 4
  /\ index \in 0..3

\* C9: when a poll's merge changes the length of the slice while windowStart
\* and windowDuration stay as they are, the index afterwards is
\* min(previous index, new length - 1).
C9_MergeKeepsPosition ==
  [][(/\ lastOp' = "success"
      /\ windowStart' = windowStart
      /\ windowDuration' = windowDuration
      /\ Len(Slice') # Len(Slice))
       => index' = Min(index, Len(Slice') - 1)]_vars

\* C10: no two elements of the resident Series share the same id.
C10_UniqueIds ==
  \A i, j \in 1..Len(observations) :
    i # j => observations[i].id # observations[j].id

\* C11: merge idempotence: ingesting the batch that was ingested just before
\* leaves the Series as it is (same elements in the same order).
C11_MergeIdempotent ==
  [][(/\ lastOp' = "ingest"
      /\ ingested # <<>>
      /\ ingested' = Append(ingested, ingested[Len(ingested)]))
       => observations' = observations]_vars

\* A batch that overwrote a resident record and moved it was ingested twice.
C11_Witness ==
  /\ lastOp = "ingest"
  /\ Len(ingested) = 2
  /\ ingested[1] = ingested[2]
  /\ \E i \in 1..Len(ingested[1]) : ingested[1][i].id = "a" /\ ingested[1][i].date = 3000
  /\ Len(observations) = 2
  /\ observations[2].id = "a"

IdsOf(s) == { s[i].id : i \in 1..Len(s) }

\* C12: merge ordering: after two batches A and B were ingested into an empty
\* Series (every pair occurs in both orders), the Series is sorted ascending
\* by instant and its set of ids is the union of the ids of A and B.
C12_MergeOrdering ==
  (status = "loading" /\ Len(ingested) = 2)
    => /\ IsSorted(observations)
       /\ IdsOf(observations) = IdsOf(ingested[1]) \cup IdsOf(ingested[2])

\* The step is the end of a poll: success, failure, or fallback activation.
PollOps == {"success", "failure", "fallback"}

\* C13: once the fallback has put the engine in degraded mode, no later poll
\* clears or replaces the degraded reason attached to the status.
C13_DegradedForGood ==
  [][(error = FALLBACK_MESSAGE /\ lastOp' \in PollOps) => error' = FALLBACK_MESSAGE]_vars

\* C14: across every poll outcome (success with records, success with none,
\* failure, fallback activation) the Series has at least as many elements
\* after the step as before it.
C14_NeverShrinks ==
  [][lastOp' \in PollOps => Len(observations') >= Len(observations)]_vars

\* A successful poll merged records into a Series that already held some.
C14_Witness ==
  /\ lastOp = "success"
  /\ lastMax # <<>>
  /\ Len(observations) = 3

\* The step ran the reset effect's body (alone, or followed in the same task
\* by the polling effect's pull).
ResetOps == {"reset", "reset+request", "reset+fallback", "reset+failure", "reset+render"}

\* C15: a change of the mission filter or of the lookback origin resets: the
\* cursor is the lookback origin in Unix seconds and the Series is empty
\* (unless the pull that follows in the same task found no credentials and
\* installed the fallback); no other step than a reset or a successful fetch
\* changes the cursor.
C15_ResetOnChange ==
  [][/\ (missionId' # missionId \/ since' # since) => lastOp' \in ResetOps
     /\ lastOp' \in ResetOps =>
          /\ cursorRef' = since' \div 1000
          /\ lastOp' # "reset+fallback" => observations' = <<>>
     /\ (lastOp' \notin ResetOps /\ lastOp' # "success") => cursorRef' = cursorRef]_vars

\* A change of the lookback origin to 2 s reset a cursor that had advanced.
C15_Witness ==
  /\ lastOp = "reset"
  /\ since = 2000
  /\ cursorRef = 2
  /\ observations = <<>>
  /\ ~hasDataRef

\* The advance is due: playing on a slice of at least 2 elements, index not last.
AdvanceDue == isPlaying /\ Len(Slice) >= 2 /\ index < Len(Slice) - 1

\* C16: while an advance is due, the pending timer's delay is
\* clamp((instant(S[index+1]) - instant(S[index])) / max(speed, 0.25), 400, 10000);
\* for the instants [0 s, 10 s, 30 s] that is 10000 and 10000 at speed 1, and
\* 5000 and 10000 at speed 2.  (speed is held in quarters.)
C16_ScheduledDelay ==
  AdvanceDue =>
    \E t \in timers :
      /\ t.id = timerRef
      /\ t.delay = Min(Max(((Slice[index + 2].date - Slice[index + 1].date) * 4)
                              \div Max(speed, 1), 400), 10000)
      /\ (/\ Len(Slice) >= 3
          /\ Slice[1].date = 0 /\ Slice[2].date = 10000 /\ Slice[3].date = 30000
          /\ index \in {0, 1})
           => t.delay = (IF speed = 4 THEN <<10000, 10000>> ELSE <<5000, 10000>>)[index + 1]

\* Playing [0 s, 10 s, 30 s, ...] at speed 2 from index 0: 5000 ms.
C16_Witness ==
  /\ AdvanceDue
  /\ speed = 8
  /\ index = 0
  /\ Slice[1].date = 0 /\ Slice[2].date = 10000
  /\ \E t \in timers : t.id = timerRef /\ t.delay = 5000

\* C17: at most one advance timer is pending, and it is the one timerRef
\* holds (every timer replaced by a change of index, slice, isPlaying or speed
\* was cancelled); a timer firing advances the index by at most one.
C17_SingleTimer ==
  /\ [](Cardinality(timers) <= 1 /\ \A t \in timers : t.id = timerRef)
  /\ [][lastOp' = "tick" => index' <= index + 1]_vars

\* A change of speed while playing replaced the pending timer.
C17_Witness ==
  /\ lastOp = "speed"
  /\ AdvanceDue
  /\ Cardinality(timers) = 1

\* C18: at the last index of the slice no advance is scheduled, and no
\* timer-driven step moves the index to a lower one.
C18_HaltsAtEnd ==
  /\ []((Len(Slice) # 0 /\ index = Len(Slice) - 1) => timers = {})
  /\ [][lastOp' = "tick" => index' >= index]_vars

\* The timer's last advance reached the end of the slice while playing.
C18_Witness ==
  /\ lastOp = "tick"
  /\ isPlaying
  /\ Len(Slice) >= 2
  /\ index = Len(Slice) - 1
  /\ timers = {}

\* C19: after teardown no timer remains pending: the poll interval and the
\* playback delay timer are cancelled, and no step after teardown starts a
\* poll or advances the index.
C19_TeardownReleasesTimers ==
  /\ [](unmounted => (~pollingRef /\ timers = {} /\ timerRef = 0))
  /\ [][unmounted => (/\ lastOp' \notin {"request", "tick"}
                      /\ Len(inflight') <= Len(inflight)
                      /\ index' = index)]_vars

\* The component was unmounted while it was playing with an advance due
\* (its timer pending), the interval registered and a fetch in flight, whose
\* response has arrived since.
C19_Witness ==
  /\ unmounted
  /\ AdvanceDue
  /\ timers = {}
  /\ ~pollingRef
  /\ lastOp = "success-ignored"

\* C20: missing credentials are fatal and not retried: once the first poll
\* (the mount's) has failed for missing credentials, no step is an interval
\* tick's poll attempt.
C20_NoRetryWithoutCredentials ==
  [][(~authHeader /\ effectsRun) => ~IntervalTick]_vars

\* C21: on a non-empty slice of length n, setProgress(p) leaves the index at
\* round(clamp(p, 0, 1) * (n - 1)) (halves rounded up, as Math.round does),
\* whatever the index was before; on 5 elements setProgress(1) gives 4,
\* setProgress(0) gives 0 and setProgress(0.5) gives 2.  (p is held in
\* hundredths.)
C21_SetProgressIndex ==
  [][lastOp' = "setProgress" =>
       \E p \in {lastArg'[1]} :
         \E c \in {IF p < 0 THEN 0 ELSE IF p > 100 THEN 100 ELSE p} :
           \E n \in {Len(Slice)} :
             /\ n > 0
             /\ 100 * index' - 50 <= c * (n - 1)
             /\ c * (n - 1) < 100 * index' + 50
             /\ (n = 5 /\ p = 100) => index' = 4
             /\ (n = 5 /\ p = 0) => index' = 0
             /\ (n = 5 /\ p = 50) => index' = 2]_vars

\* setProgress(0.5) on a slice of 5 elements moved the index from 4 to 2.
C21_Witness ==
  /\ lastOp = "setProgress"
  /\ lastArg = <<50>>
  /\ before = [len |-> 5, index |-> 4]
  /\ Len(Slice) = 5
  /\ index = 2

\* C22: every Observation, from the normalizer or from the synthetic
\* generator, satisfies windSpeed = hypot(speed_u, speed_v).
C22_WindSpeedFromComponents ==
  sample.stage \in {"normalized", "synthetic"}
    => sample.obs.windSpeed = hypot(sample.obs.speed_u, sample.obs.speed_v)

\* C26: a numeric timestamp t, and a string that parses as the finite number
\* t, is taken as Unix seconds (instant t * 1000) when t < 1e12 and as
\* milliseconds (instant t) otherwise, t = 1e12 included.
C26_TimestampUnits ==
  (sample.stage = "normalized" /\ sample.raw.timestamp.kind \in {"num", "str"})
    => sample.obs.instant =
         (IF sample.raw.timestamp.w.hi < 1000000
            THEN WideTimes1000(sample.raw.timestamp.w)
            ELSE sample.raw.timestamp.w)

\* C23: a successful fetch that returned no records leaves the cursor at the
\* next_since hint when the response carried one and where it was otherwise,
\* and leaves the Series as it was in both cases.
C23_EmptyBatchCursor ==
  [][(lastOp' = "success" /\ lastMax' = <<>>)
       => /\ observations' = observations
          /\ cursorRef' = (IF lastArg' # <<>> THEN lastArg'[1] ELSE cursorRef)]_vars

\* An empty response with the hint 3 moved the cursor of a Series that held
\* records.
C23_Witness ==
  /\ lastOp = "success"
  /\ lastMax = <<>>
  /\ lastArg = <<3>>
  /\ cursorRef = 3
  /\ observations # <<>>

\* C24: left alone while playing a slice of at least 2 elements (no change
\* of slice, speed or index from outside), the index reaches length - 1 from
\* any starting index, and every timer that fires advances it by exactly one.
C24_PlaysToTheEnd ==
  /\ [](( handsOff /\ isPlaying /\ Len(Slice) >= 2) => <>(index = Len(Slice) - 1))
  /\ [][TimerFire => index' = index + 1]_vars

\* Left alone at index 1 of 10, playback has reached the last element.
C24_Witness ==
  /\ handsOff
  /\ isPlaying
  /\ Len(Slice) = 10
  /\ index = 9
  /\ lastOp = "tick"
  /\ before = [len |-> 10, index |-> 8]

\* C25: after any change of windowStart or windowDuration the index is 0 once
\* the updates that follow from it are applied, whatever the index was and
\* whatever the length of the new slice.
C25_WindowChangeRewinds ==
  [][(windowStart' # windowStart \/ windowDuration' # windowDuration)
       => index' = 0]_vars

\* A window change at index 7 of 10 left a slice of 4 elements at index 0.
C25_Witness ==
  /\ lastOp = "window"
  /\ before = [len |-> 10, index |-> 7]
  /\ Len(Slice) = 4
  /\ index = 0

\* C27: a fetch issued before a reset and completing after it adds no record
\* to the freshly cleared Series and does not move the cursor away from the
\* reset origin.  (Stated for the response that arrives right after the
\* reset: every fetch then in flight was issued before it.)
C27_StaleResponseDropped ==
  [][(lastOp = "reset" /\ lastOp' = "success")
       => (observations' = <<>> /\ cursorRef' = isoToSeconds(sinceRef))]_vars

\* The synthetic observations of a Series.
SyntheticIn(obs) == { i \in 1..Len(obs) : obs[i].missionId = "windborne-sim" }

\* C28: the Series never holds synthetic and live observations at the same
\* time.
C28_NeverMixed ==
  SyntheticIn(observations) = {} \/ SyntheticIn(observations) = 1..Len(observations)

\* C30: once the pending updates are applied, isPlaying is never true while
\* the playback slice is empty.
C30_NoPlayingOnEmptySlice == isPlaying => Len(Slice) # 0

\* The step called pull(): a request was sent, or fetchBatch threw at once
\* for missing credentials.
PollStarted ==
  \/ lastOp \in {"request", "reset+request"}
  \/ (~authHeader /\ lastOp \in {"fallback", "failure", "reset+fallback", "reset+failure"})

\* C29: after a reset triggered by a change of since alone, with the stream
\* active, a new poll is eventually started and the status eventually leaves
\* loading, whatever the refresh interval (refreshMs = 0 included).
C29_ResetPollsAgain ==
  /\ ((lastOp = "reset" /\ isActive) ~> PollStarted)
  /\ ((lastOp = "reset" /\ isActive) ~> (status # "loading"))

\* C31: the sonifier builds its node graph at most once per instance, for
\* any interleaving of initializeAudio and triggerObservation calls (calls
\* started before an earlier setup has finished included), and the set built
\* is the one disposed on teardown.
C31_NodesBuiltOnce ==
  /\ Cardinality(sonifier.built) <= 1
  /\ (unmounted /\ sonifier.pending = <<>>) => sonifier.disposed = sonifier.built

====
